---- MODULE Spec2Model ----
(***************************************************************************)
(* Model of the continuous monitoring engine of blender.py: the per-host   *)
(* polling loops (check_host_continuous), the shared down_hosts set and    *)
(* its lock, the periodic reporter (report_down_hosts) and the supervisor  *)
(* (reset_check, _shutdown_threads) with its ThreadPoolExecutor.           *)
(***************************************************************************)
EXTENDS Integers, Sequences, FiniteSets, TLC

\* ------------------------------------------------------------------ bounds
\* config['hosts']['teams']: start is 1, end is TeamEnd
TeamEnd == 2
\* config['execution']['max_workers'] (the code's default is 4)
MaxWorkers == 1
\* config report_interval in seconds (the code's default is 30)
ReportInterval == 1

\* ------------------------------------------------------ inventory and hosts
\* The placeholder token "{team}" inside a host template.
PH == 0 - 1

\* The ports file as written by discovery: host template -> list of ports,
\* in the order of the JSON object.
AllEntries ==
  << [host |-> <<10, PH, 1, 5>>, ports |-> <<22>>],
     [host |-> <<10, PH, 1, 6>>, ports |-> <<22, 80>>] >>

MaxTemplates == Len(AllEntries)

\* What json.load can return for the ports file: a prefix of AllEntries.
FileInventories == { SubSeq(AllEntries, 1, n) : n \in 0..MaxTemplates }

PortNumbers == {22, 80}

\* self.teams = list(range(start, end + 1))
teams == [k \in 1..TeamEnd |-> k]

\* host.format(**{placeholder: team})
Format(host, team) == [j \in DOMAIN host |-> IF host[j] = PH THEN team ELSE host[j]]

\* check_ports: the ports are tried in order, the first one that accepts a
\* connection answers True; every connection error is swallowed.
RECURSIVE check_ports_from(_, _, _)
check_ports_from(prts, j, open) ==
  IF j > Len(prts) THEN FALSE
  ELSE IF prts[j] \in open THEN TRUE
  ELSE check_ports_from(prts, j + 1, open)

check_ports(prts, open) == check_ports_from(prts, 1, open)

\* ------------------------------------------------------------------- state
VARIABLES
  ports,        \* self.ports, as the list of its items
  stop_event,   \* self.stop_event
  down_hosts,   \* self.down_hosts
  lock,         \* holder of self.down_hosts_lock: a worker index, Reporter, Sup or Free
  supPc,        \* position of reset_check / _shutdown_threads
  supIdx,       \* index of the submit loop and of the join loop
  futures,      \* the list futures: worker indices, 0 for the reporter
  queue,        \* work items of the executor no thread has taken yet
  nThreads,     \* threads the executor has created
  pc,           \* position of each check_host_continuous call
  wIdx,         \* index into self.teams of the loop variable team
  wOpen,        \* the local open_port
  rPc,          \* position of report_down_hosts
  rElapsed,     \* seconds since last_report_time
  rCount,       \* len(self.down_hosts) as printed in the header of the report
  printed,      \* the alert line the last with block of a worker printed, if any
  lastDown,     \* history: the pairs whose most recent completed probe failed
  alerted,      \* history: the pairs whose last alert is POSSIBLE BOX RESET
  afterFault,   \* history: team index of the last fault, until the next probe; else 0
  loadFailed,   \* history: the last load_ports_file hit its except branch
  afterStop,    \* history: what each running call has done since stop_event.set()
  tPc,          \* timing of one worker: "for", "connect", "observed"; "off" if not timed
  tPorts,       \* timing: the list ports given to check_ports
  tJ,           \* timing: index of the port check_ports is trying
  tConn,        \* timing: seconds the current connect_ex has been blocking
  tSince        \* timing: seconds since stop_event.set(), -1 before it

blenderVars == << ports, stop_event, down_hosts, lock, supPc, supIdx, futures, queue,
                  nThreads, pc, wIdx, wOpen, printed, rPc, rElapsed, rCount, lastDown,
                  alerted, afterFault, loadFailed, afterStop >>

timeVars == << tPc, tPorts, tJ, tConn, tSince >>

vars == << blenderVars, timeVars >>

Workers == 1..MaxTemplates
Reporter == 0

\* The DownEntry (team, formatted_host) of worker i at team index k.
Entry(i, k) == << teams[k], Format(AllEntries[i].host, teams[k]) >>

AllPairs == { Entry(i, k) : i \in Workers, k \in 1..TeamEnd }

NoEvent == [kind |-> "none"]

\* Holders of self.down_hosts_lock other than the workers 1..MaxTemplates.
Sup == MaxTemplates + 1
Free == MaxTemplates + 2

\* sorted(self.down_hosts): tuples compare by team, then by host.
RECURSIVE SeqLess(_, _, _)
SeqLess(a, b, j) ==
  IF j > Len(a) THEN j <= Len(b)
  ELSE IF j > Len(b) THEN FALSE
  ELSE IF a[j] # b[j] THEN a[j] < b[j]
  ELSE SeqLess(a, b, j + 1)

EntryLess(a, b) == a[1] < b[1] \/ (a[1] = b[1] /\ SeqLess(a[2], b[2], 1))

RECURSIVE sorted(_)
sorted(S) ==
  IF S = {} THEN << >>
  ELSE LET m == CHOOSE x \in S : \A y \in S \ {x} : EntryLess(x, y)
       IN  << m >> \o sorted(S \ {m})

\* ---------------------------------------------------------------- registry
\* Faulty variant: a host that answers again is announced but stays in the set.
report_keepsRecovered(dh, p, open_port) ==
  IF ~open_port
  THEN IF p \notin dh
       THEN [down |-> dh \cup {p},
             event |-> [kind |-> "RESET", team |-> p[1], host |-> p[2]]]
       ELSE [down |-> dh, event |-> NoEvent]
  ELSE IF p \in dh
       THEN [down |-> dh,
             event |-> [kind |-> "RECOVERED", team |-> p[1], host |-> p[2]]]
       ELSE [down |-> dh, event |-> NoEvent]

\* Faulty variant: the alert is printed without the membership test.
report_alertsAlways(dh, p, open_port) ==
  IF ~open_port
  THEN [down |-> dh \cup {p},
        event |-> [kind |-> "RESET", team |-> p[1], host |-> p[2]]]
  ELSE IF p \in dh
       THEN [down |-> dh \ {p},
             event |-> [kind |-> "RECOVERED", team |-> p[1], host |-> p[2]]]
       ELSE [down |-> dh, event |-> NoEvent]

\* Faulty variant: the recovery is printed without the membership test.
report_recoversAlways(dh, p, open_port) ==
  IF ~open_port
  THEN IF p \notin dh
       THEN [down |-> dh \cup {p},
             event |-> [kind |-> "RESET", team |-> p[1], host |-> p[2]]]
       ELSE [down |-> dh, event |-> NoEvent]
  ELSE [down |-> dh \ {p},
        event |-> [kind |-> "RECOVERED", team |-> p[1], host |-> p[2]]]

\* The body of "with self.down_hosts_lock" in check_host_continuous: the new
\* set and the line printed, if any.
report(dh, p, open_port) ==
  IF ~open_port
  THEN IF p \notin dh
       THEN [down |-> dh \cup {p},
             event |-> [kind |-> "RESET", team |-> p[1], host |-> p[2]]]
       ELSE [down |-> dh, event |-> NoEvent]
  ELSE IF p \in dh
       THEN [down |-> dh \ {p},
             event |-> [kind |-> "RECOVERED", team |-> p[1], host |-> p[2]]]
       ELSE [down |-> dh, event |-> NoEvent]

\* ------------------------------------------------- history since the stop
\* Per call that is running: changes of down_hosts made and status reports
\* printed while stop_event was set. Counted up to 2; a call
\* that returns, or that has found stop_event set at its for loop and is on
\* its way out, is forgotten.
NothingAfterStop ==
  [changes |-> [i \in Workers |-> 0], digests |-> 0]

UpTo2(n) == IF n >= 2 THEN 2 ELSE n + 1

\* The with block of worker i has added or removed an entry.
CountChange(i, changed) ==
  IF stop_event /\ changed THEN [afterStop EXCEPT !.changes[i] = UpTo2(@)] ELSE afterStop

\* A status report of the reporter is complete.
CountDigest ==
  IF stop_event THEN [afterStop EXCEPT !.digests = UpTo2(@)] ELSE afterStop

\* check_host_continuous returns, or breaks out of the for loop, if leaves.
ForgetWorker(i, leaves) ==
  IF leaves THEN [afterStop EXCEPT !.changes[i] = 0] ELSE afterStop

\* report_down_hosts ends if ends is true.
ForgetReporter(ends) ==
  IF ends THEN [afterStop EXCEPT !.digests = 0] ELSE afterStop

\* ------------------------------------------------------------------- Init
\* The state Blender.__init__ leaves, before reset_check is called.
Init ==
  /\ ports = << >>
  /\ stop_event = FALSE
  /\ down_hosts = {}
  /\ lock = Free
  /\ supPc = "Idle"
  /\ supIdx = 1
  /\ futures = << >>
  /\ queue = << >>
  /\ nThreads = 0
  /\ pc = [i \in Workers |-> "none"]
  /\ wIdx = [i \in Workers |-> 1]
  /\ wOpen = [i \in Workers |-> FALSE]
  /\ rPc = "none"
  /\ rElapsed = 0
  /\ rCount = 0
  /\ printed = [i \in Workers |-> NoEvent]
  /\ lastDown = {}
  /\ alerted = {}
  /\ afterFault = [i \in Workers |-> 0]
  /\ loadFailed = FALSE
  /\ afterStop = NothingAfterStop
  /\ tPc = "off"
  /\ tPorts = << >>
  /\ tJ = 0
  /\ tConn = 0
  /\ tSince = 0 - 1

supVars == << supPc, supIdx, futures >>
poolVars == << queue, nThreads >>
workerVars == << pc, wIdx, wOpen, printed >>
reporterVars == << rPc, rElapsed, rCount >>
histVars == << lastDown, alerted, afterFault, loadFailed >>

\* ------------------------------------------------------------- the executor
\* The position of the unit behind a future.
UnitPc(u) == IF u = Reporter THEN rPc ELSE pc[u]

\* future.done(): the call returned or raised.
Done(u) == UnitPc(u) \in {"done", "failed"}

\* Units a pool thread is executing.
Busy == { u \in Workers \cup {Reporter} : UnitPc(u) \notin {"none", "queued", "done", "failed"} }

\* ThreadPoolExecutor(max_workers=self.max_workers + 1)
PoolSize == MaxWorkers + 1

\* executor.submit starts a thread while fewer than max_workers exist.
AdjustThreadCount == IF nThreads < PoolSize THEN nThreads + 1 ELSE nThreads

\* A pool thread without work takes the oldest queued work item and calls it.
UnitStart ==
  /\ queue # << >>
  /\ Cardinality(Busy) < nThreads
  /\ LET u == Head(queue) IN
       /\ queue' = Tail(queue)
       /\ IF u = Reporter
          THEN /\ rPc' = "while"
               /\ rElapsed' = 0
               /\ UNCHANGED pc
          ELSE /\ pc' = [pc EXCEPT ![u] = "while"]
               /\ UNCHANGED << rPc, rElapsed >>
  /\ UNCHANGED << timeVars, afterStop, ports, stop_event, down_hosts, lock, supVars, nThreads,
                  wIdx, wOpen, printed, rCount, histVars >>

\* ----------------------------------------------- check_host_continuous
\* Faulty variant: after a fault the for loop resumes at the team that faulted.
WorkerWhile_resumes(i) ==
  /\ pc[i] = "while"
  /\ pc' = [pc EXCEPT ![i] = IF stop_event THEN "done" ELSE "for"]
  /\ wIdx' = [wIdx EXCEPT ![i] = IF ~stop_event /\ afterFault[i] # 0
                                  THEN afterFault[i] ELSE 1]
  /\ afterFault' = [afterFault EXCEPT ![i] = IF stop_event THEN 0 ELSE afterFault[i]]
  /\ afterStop' = ForgetWorker(i, stop_event)
  /\ UNCHANGED << timeVars, ports, printed, stop_event, down_hosts, lock, supVars, poolVars,
                  wOpen, reporterVars, lastDown, alerted, loadFailed >>

\* while not self.stop_event.is_set(): ... for team in self.teams:
\* A call that returns leaves "done" with its locals gone (wIdx back to 1).
WorkerWhile(i) ==
  /\ pc[i] = "while"
  /\ pc' = [pc EXCEPT ![i] = IF stop_event THEN "done" ELSE "for"]
  /\ wIdx' = [wIdx EXCEPT ![i] = 1]
  /\ afterFault' = [afterFault EXCEPT ![i] = IF stop_event THEN 0 ELSE afterFault[i]]
  /\ afterStop' = ForgetWorker(i, stop_event)
  /\ UNCHANGED << timeVars, ports, printed, stop_event, down_hosts, lock, supVars, poolVars,
                  wOpen, reporterVars, lastDown, alerted, loadFailed >>

\* Faulty variant: the for loop has no stop check, the cycle is completed.
WorkerFor_noBreak(i) ==
  /\ pc[i] = "for"
  /\ IF wIdx[i] > Len(teams)
     THEN /\ pc' = [pc EXCEPT ![i] = "pause"]
          /\ afterFault' = [afterFault EXCEPT ![i] = 0]
     ELSE /\ pc' = [pc EXCEPT ![i] = "probe"]
          /\ UNCHANGED afterFault
  /\ printed' = [printed EXCEPT ![i] = NoEvent]
  /\ UNCHANGED << timeVars, afterStop, ports, stop_event, down_hosts, lock, supVars, poolVars,
                  wIdx, wOpen, reporterVars, lastDown, alerted, loadFailed >>

\* The next team of the for loop, and "if self.stop_event.is_set(): break".
\* Both the exhausted loop and the break lead to the wait of line 159.
\* The line of the previous with block is no longer the last thing printed.
WorkerFor(i) ==
  /\ pc[i] = "for"
  /\ IF wIdx[i] > Len(teams) \/ stop_event
     THEN /\ pc' = [pc EXCEPT ![i] = "pause"]
          /\ afterFault' = [afterFault EXCEPT ![i] = 0]
     ELSE /\ pc' = [pc EXCEPT ![i] = "probe"]
          /\ UNCHANGED afterFault
  /\ printed' = [printed EXCEPT ![i] = NoEvent]
  /\ afterStop' = ForgetWorker(i, stop_event)
  /\ UNCHANGED << timeVars, ports, stop_event, down_hosts, lock, supVars, poolVars,
                  wIdx, wOpen, reporterVars, lastDown, alerted, loadFailed >>

\* formatted_host = host.format(...); open_port = check_ports(formatted_host, ports)
\* returns: the network decides which ports accept a connection.
WorkerProbe(i) ==
  /\ pc[i] = "probe"
  /\ \E open \in SUBSET PortNumbers :
       LET r == check_ports(ports[i].ports, open) IN
         /\ wOpen' = [wOpen EXCEPT ![i] = r]
         /\ lastDown' = IF r THEN lastDown \ {Entry(i, wIdx[i])}
                              ELSE lastDown \cup {Entry(i, wIdx[i])}
  /\ pc' = [pc EXCEPT ![i] = "lock"]
  /\ afterFault' = [afterFault EXCEPT ![i] = 0]
  /\ UNCHANGED << timeVars, afterStop, ports, printed, stop_event, down_hosts, lock, supVars, poolVars,
                  wIdx, reporterVars, alerted, loadFailed >>

\* The same two lines raise: control goes to "except Exception as e".
WorkerProbeRaise(i) ==
  /\ pc[i] = "probe"
  /\ pc' = [pc EXCEPT ![i] = "except"]
  /\ afterFault' = [afterFault EXCEPT ![i] = 0]
  /\ UNCHANGED << timeVars, afterStop, ports, printed, stop_event, down_hosts, lock, supVars, poolVars,
                  wIdx, wOpen, reporterVars, lastDown, alerted, loadFailed >>

\* Faulty variant: the worker enters the block without waiting for the lock.
WorkerLock_noWait(i) ==
  /\ pc[i] = "lock"
  /\ lock' = i
  /\ pc' = [pc EXCEPT ![i] = "crit"]
  /\ UNCHANGED << timeVars, afterStop, ports, printed, stop_event, down_hosts, supVars, poolVars, wIdx,
                  wOpen, reporterVars, histVars >>

\* with self.down_hosts_lock: (acquire)
WorkerLock(i) ==
  /\ pc[i] = "lock"
  /\ lock = Free
  /\ lock' = i
  /\ pc' = [pc EXCEPT ![i] = "crit"]
  /\ UNCHANGED << timeVars, afterStop, ports, printed, stop_event, down_hosts, supVars, poolVars, wIdx,
                  wOpen, reporterVars, histVars >>

\* Faulty variant: a host found down is probed again at once.
WorkerReport_retries(i) ==
  /\ pc[i] = "crit"
  /\ lock = i
  /\ LET p == Entry(i, wIdx[i])
         r == report(down_hosts, p, wOpen[i])
     IN  /\ down_hosts' = r.down
         /\ printed' = [printed EXCEPT ![i] = r.event]
         /\ alerted' = CASE r.event.kind = "RESET" -> alerted \cup {p}
                          [] r.event.kind = "RECOVERED" -> alerted \ {p}
                          [] OTHER -> alerted
         /\ afterStop' = CountChange(i, r.down # down_hosts)
  /\ lock' = Free
  /\ wIdx' = [wIdx EXCEPT ![i] = IF wOpen[i] THEN wIdx[i] + 1 ELSE wIdx[i]]
  /\ wOpen' = [wOpen EXCEPT ![i] = FALSE]
  /\ pc' = [pc EXCEPT ![i] = IF wOpen[i] THEN "for" ELSE "probe"]
  /\ UNCHANGED << timeVars, ports, stop_event, supVars, poolVars, reporterVars,
                  lastDown, afterFault, loadFailed >>

\* The body of the with block, and the release of the lock; open_port is not
\* read again before the next check_ports assigns it.
WorkerReport(i) ==
  /\ pc[i] = "crit"
  /\ lock = i
  /\ LET p == Entry(i, wIdx[i])
         r == report(down_hosts, p, wOpen[i])
     IN  /\ down_hosts' = r.down
         /\ printed' = [printed EXCEPT ![i] = r.event]
         /\ alerted' = CASE r.event.kind = "RESET" -> alerted \cup {p}
                          [] r.event.kind = "RECOVERED" -> alerted \ {p}
                          [] OTHER -> alerted
         /\ afterStop' = CountChange(i, r.down # down_hosts)
  /\ lock' = Free
  /\ wIdx' = [wIdx EXCEPT ![i] = wIdx[i] + 1]
  /\ wOpen' = [wOpen EXCEPT ![i] = FALSE]
  /\ pc' = [pc EXCEPT ![i] = "for"]
  /\ UNCHANGED << timeVars, ports, stop_event, supVars, poolVars, reporterVars,
                  lastDown, afterFault, loadFailed >>

\* if not self.stop_event.wait(0.1): continue / else: break
WorkerPause(i) ==
  /\ pc[i] = "pause"
  /\ pc' = [pc EXCEPT ![i] = IF stop_event THEN "done" ELSE "while"]
  /\ wIdx' = [wIdx EXCEPT ![i] = IF stop_event THEN 1 ELSE wIdx[i]]
  /\ afterStop' = ForgetWorker(i, stop_event)
  /\ UNCHANGED << timeVars, ports, printed, stop_event, down_hosts, lock, supVars, poolVars,
                  wOpen, reporterVars, histVars >>

\* Faulty variant: the handler records the host of the fault as down.
WorkerExcept_recordsDown(i) ==
  /\ pc[i] = "except"
  /\ pc' = [pc EXCEPT ![i] = IF stop_event THEN "done" ELSE "while"]
  /\ wIdx' = [wIdx EXCEPT ![i] = IF stop_event THEN 1 ELSE wIdx[i]]
  /\ afterFault' = [afterFault EXCEPT ![i] = IF stop_event THEN 0 ELSE wIdx[i]]
  /\ down_hosts' = down_hosts \cup {Entry(i, wIdx[i])}
  /\ afterStop' = ForgetWorker(i, stop_event)
  /\ UNCHANGED << timeVars, ports, printed, stop_event, lock, supVars, poolVars,
                  wOpen, reporterVars, lastDown, alerted, loadFailed >>

\* Faulty variant: the handler ends the call instead of going on.
WorkerExcept_returns(i) ==
  /\ pc[i] = "except"
  /\ pc' = [pc EXCEPT ![i] = "done"]
  /\ wIdx' = [wIdx EXCEPT ![i] = 1]
  /\ afterFault' = [afterFault EXCEPT ![i] = 0]
  /\ afterStop' = ForgetWorker(i, TRUE)
  /\ UNCHANGED << timeVars, ports, printed, stop_event, down_hosts, lock, supVars, poolVars,
                  wOpen, reporterVars, lastDown, alerted, loadFailed >>

\* except Exception as e: print; if not self.stop_event.wait(1): continue / else: break
WorkerExcept(i) ==
  /\ pc[i] = "except"
  /\ pc' = [pc EXCEPT ![i] = IF stop_event THEN "done" ELSE "while"]
  /\ wIdx' = [wIdx EXCEPT ![i] = IF stop_event THEN 1 ELSE wIdx[i]]
  /\ afterFault' = [afterFault EXCEPT ![i] = IF stop_event THEN 0 ELSE wIdx[i]]
  /\ afterStop' = ForgetWorker(i, stop_event)
  /\ UNCHANGED << timeVars, ports, printed, stop_event, down_hosts, lock, supVars, poolVars,
                  wOpen, reporterVars, lastDown, alerted, loadFailed >>

\* ----------------------------------------------------- report_down_hosts
\* Faulty variant: the loop of the reporter does not test stop_event.
ReporterWhile_noStopTest ==
  /\ rPc = "while"
  /\ rPc' = "sleep"
  /\ UNCHANGED << timeVars, afterStop, ports, stop_event, down_hosts, lock, supVars,
                  poolVars, workerVars, rElapsed, rCount, lastDown, alerted,
                  afterFault, loadFailed >>

\* while not self.stop_event.is_set():
ReporterWhile ==
  /\ rPc = "while"
  /\ rPc' = IF stop_event THEN "done" ELSE "sleep"
  /\ rElapsed' = IF stop_event THEN 0 ELSE rElapsed
  /\ afterStop' = ForgetReporter(stop_event)
  /\ UNCHANGED << timeVars, ports, stop_event, down_hosts, lock, supVars, poolVars,
                  workerVars, rCount, histVars >>

\* time.sleep(1); if current_time - last_report_time >= self.report_interval:
ReporterSleep ==
  /\ rPc = "sleep"
  /\ IF rElapsed + 1 >= ReportInterval
     THEN /\ rPc' = "lock"
          /\ rElapsed' = ReportInterval
     ELSE /\ rPc' = "while"
          /\ rElapsed' = rElapsed + 1
  /\ UNCHANGED << timeVars, afterStop, ports, stop_event, down_hosts, lock, supVars, poolVars,
                  workerVars, rCount, histVars >>

\* Nothing in report_down_hosts catches an exception: one raised by the
\* loop body ends the call.
ReporterFault ==
  /\ rPc = "sleep"
  /\ rPc' = "failed"
  /\ rElapsed' = 0
  /\ afterStop' = ForgetReporter(TRUE)
  /\ UNCHANGED << timeVars, ports, stop_event, down_hosts, lock, supVars, poolVars,
                  workerVars, rCount, histVars >>

\* with self.down_hosts_lock: (acquire)
ReporterLock ==
  /\ rPc = "lock"
  /\ lock = Free
  /\ lock' = Reporter
  /\ rPc' = "crit"
  /\ UNCHANGED << timeVars, afterStop, ports, stop_event, down_hosts, supVars, poolVars,
                  workerVars, rElapsed, rCount, histVars >>

\* if self.down_hosts: ... else: print("All hosts are UP"), and the header
\* line with len(self.down_hosts). With an empty set the block ends here:
\* the lock is released and last_report_time = current_time.
ReporterHeader ==
  /\ rPc = "crit"
  /\ lock = Reporter
  /\ IF down_hosts = {}
     THEN /\ lock' = Free
          /\ rElapsed' = 0
          /\ rCount' = 0
          /\ rPc' = "while"
     ELSE /\ rCount' = Cardinality(down_hosts)
          /\ rPc' = "list"
          /\ UNCHANGED << lock, rElapsed >>
  /\ afterStop' = IF down_hosts = {} THEN CountDigest ELSE afterStop
  /\ UNCHANGED << timeVars, ports, stop_event, down_hosts, supVars, poolVars,
                  workerVars, histVars >>

\* Faulty variant: the report empties the set it has just listed.
ReporterEmit_clears ==
  /\ rPc = "list"
  /\ lock = Reporter
  /\ down_hosts' = {}
  /\ lock' = Free
  /\ rElapsed' = 0
  /\ rCount' = 0
  /\ rPc' = "while"
  /\ afterStop' = CountDigest
  /\ UNCHANGED << timeVars, ports, stop_event, supVars, poolVars,
                  workerVars, histVars >>

\* for team, host in sorted(self.down_hosts): print; the release of the
\* lock; last_report_time = current_time.
ReporterEmit ==
  /\ rPc = "list"
  /\ lock = Reporter
  /\ lock' = Free
  /\ rElapsed' = 0
  /\ rCount' = 0
  /\ rPc' = "while"
  /\ afterStop' = CountDigest
  /\ UNCHANGED << timeVars, ports, stop_event, down_hosts, supVars, poolVars,
                  workerVars, histVars >>

\* ------------------------------------------------------------ reset_check
\* The operator runs reset_check, on a fresh Blender or after an earlier run
\* has returned.
Start ==
  /\ supPc \in {"Idle", "Stopped"}
  /\ supPc' = "load"
  /\ UNCHANGED << timeVars, afterStop, ports, stop_event, down_hosts, lock, supIdx, futures,
                  poolVars, workerVars, reporterVars, histVars >>

\* load_ports_file reads the file: self.ports = ports.
LoadPortsFile ==
  /\ supPc = "load"
  /\ \E inv \in FileInventories : ports' = inv
  /\ loadFailed' = FALSE
  /\ supPc' = "clear_stop"
  /\ UNCHANGED << timeVars, afterStop, stop_event, down_hosts, lock, supIdx, futures, poolVars,
                  workerVars, reporterVars, lastDown, alerted, afterFault >>

\* load_ports_file cannot read or parse the file: its own except branch
\* prints the error and sets self.ports = {}; reset_check sees no exception.
LoadPortsFileError ==
  /\ supPc = "load"
  /\ ports' = << >>
  /\ loadFailed' = TRUE
  /\ supPc' = "clear_stop"
  /\ UNCHANGED << timeVars, afterStop, stop_event, down_hosts, lock, supIdx, futures, poolVars,
                  workerVars, reporterVars, lastDown, alerted, afterFault >>

\* self.stop_event.clear()
ClearStop ==
  /\ supPc = "clear_stop"
  /\ stop_event' = FALSE
  /\ supPc' = "clear_hosts"
  /\ UNCHANGED << timeVars, afterStop, ports, down_hosts, lock, supIdx, futures, poolVars,
                  workerVars, reporterVars, histVars >>

\* Faulty variant: the set of the previous run is kept.
ClearHosts_keeps ==
  /\ supPc = "clear_hosts"
  /\ lock = Free
  /\ lastDown' = down_hosts
  /\ alerted' = down_hosts
  /\ supPc' = "executor"
  /\ UNCHANGED << timeVars, afterStop, ports, stop_event, down_hosts, lock, supIdx, futures, poolVars,
                  workerVars, reporterVars, afterFault, loadFailed >>

\* with self.down_hosts_lock: self.down_hosts.clear()
ClearHosts ==
  /\ supPc = "clear_hosts"
  /\ lock = Free
  /\ down_hosts' = {}
  /\ lastDown' = {}
  /\ alerted' = {}
  /\ supPc' = "executor"
  /\ UNCHANGED << timeVars, afterStop, ports, stop_event, lock, supIdx, futures, poolVars,
                  workerVars, reporterVars, afterFault, loadFailed >>

\* executor = ThreadPoolExecutor(...); host_ports_pairs = list(self.ports.items())
CreateExecutor ==
  /\ supPc = "executor"
  /\ futures' = << >>
  /\ queue' = << >>
  /\ nThreads' = 0
  /\ pc' = [i \in Workers |-> "none"]
  /\ rPc' = "none"
  /\ afterFault' = [i \in Workers |-> 0]
  /\ supIdx' = 1
  /\ supPc' = "submit"
  /\ afterStop' = NothingAfterStop
  /\ UNCHANGED << timeVars, ports, stop_event, down_hosts, lock, wIdx, wOpen, printed, rElapsed,
                  rCount, lastDown, alerted, loadFailed >>

\* futures = [executor.submit(self.check_host_continuous, pair) for pair in ...]
SubmitWorker ==
  /\ supPc = "submit"
  /\ supIdx <= Len(ports)
  /\ futures' = Append(futures, supIdx)
  /\ queue' = Append(queue, supIdx)
  /\ nThreads' = AdjustThreadCount
  /\ pc' = [pc EXCEPT ![supIdx] = "queued"]
  /\ supIdx' = supIdx + 1
  /\ UNCHANGED << timeVars, afterStop, ports, stop_event, down_hosts, lock, supPc, wIdx, wOpen, printed,
                  reporterVars, histVars >>

\* reporter_future = executor.submit(self.report_down_hosts); futures.append(...)
SubmitReporter ==
  /\ supPc = "submit"
  /\ supIdx > Len(ports)
  /\ futures' = Append(futures, Reporter)
  /\ queue' = Append(queue, Reporter)
  /\ nThreads' = AdjustThreadCount
  /\ rPc' = "queued"
  /\ supPc' = "poll"
  /\ UNCHANGED << timeVars, afterStop, ports, stop_event, down_hosts, lock, supIdx, workerVars,
                  rElapsed, rCount, histVars >>

\* finished_futures = [f for f in futures if f.done()]
FinishedFutures == { j \in DOMAIN futures : Done(futures[j]) }

\* The head of the polling loop: the warning about finished threads. From
\* the second round on the time.sleep(30) that ends the loop body comes first.
SupPoll ==
  /\ supPc = "poll"
  /\ supPc' = "status_lock"
  /\ UNCHANGED << timeVars, afterStop, ports, stop_event, down_hosts, lock, supIdx, futures,
                  poolVars, workerVars, reporterVars, histVars >>

\* with self.down_hosts_lock: (acquire, in the polling loop)
SupStatusLock ==
  /\ supPc = "status_lock"
  /\ lock = Free
  /\ lock' = Sup
  /\ supPc' = "status"
  /\ UNCHANGED << timeVars, afterStop, ports, stop_event, down_hosts, supIdx, futures, poolVars,
                  workerVars, reporterVars, histVars >>

\* if self.down_hosts: print the HOSTS DOWN STATUS block; release the lock.
SupStatus ==
  /\ supPc = "status"
  /\ lock = Sup
  /\ lock' = Free
  /\ supPc' = "poll"
  /\ UNCHANGED << timeVars, afterStop, ports, stop_event, down_hosts, supIdx, futures, poolVars,
                  workerVars, reporterVars, histVars >>

\* The supervisor is in the polling loop.
Running == supPc \in {"poll", "status_lock", "status"}

\* Faulty variant: the exception leaves the block without releasing the lock.
Interrupt_keepsLock ==
  /\ Running
  /\ supPc' = "shutdown"
  /\ UNCHANGED << timeVars, afterStop, ports, stop_event, down_hosts, lock, supIdx, futures, poolVars,
                  workerVars, reporterVars, histVars >>

\* except KeyboardInterrupt: Ctrl+C arrives somewhere in the polling loop; a
\* with block that is left by the exception releases the lock.
Interrupt ==
  /\ Running
  /\ lock' = IF lock = Sup THEN Free ELSE lock
  /\ supPc' = "shutdown"
  /\ UNCHANGED << timeVars, afterStop, ports, stop_event, down_hosts, supIdx, futures, poolVars,
                  workerVars, reporterVars, histVars >>

\* ------------------------------------------------------ _shutdown_threads
\* Faulty variant: the threads are awaited without being told to stop.
ShutdownSetStop_noSet ==
  /\ supPc = "shutdown"
  /\ supPc' = "final_lock"
  /\ UNCHANGED << timeVars, afterStop, ports, stop_event, down_hosts, lock, supIdx, futures,
                  poolVars, workerVars, reporterVars, histVars >>

\* self.stop_event.set()
ShutdownSetStop ==
  /\ supPc = "shutdown"
  /\ stop_event' = TRUE
  /\ supPc' = "final_lock"
  /\ UNCHANGED << timeVars, afterStop, ports, down_hosts, lock, supIdx, futures, poolVars,
                  workerVars, reporterVars, histVars >>

\* with self.down_hosts_lock: (acquire, for the final status)
FinalLock ==
  /\ supPc = "final_lock"
  /\ lock = Free
  /\ lock' = Sup
  /\ supPc' = "final"
  /\ UNCHANGED << timeVars, afterStop, ports, stop_event, down_hosts, supIdx, futures, poolVars,
                  workerVars, reporterVars, histVars >>

\* if self.down_hosts: print FINAL STATUS and the sorted entries; release.
FinalStatus ==
  /\ supPc = "final"
  /\ lock = Sup
  /\ lock' = Free
  /\ supIdx' = 1
  /\ supPc' = "join"
  /\ UNCHANGED << timeVars, afterStop, ports, stop_event, down_hosts, futures, poolVars,
                  workerVars, reporterVars, histVars >>

\* future.result(timeout=5) of a future that is done by then: its result, or
\* its exception, which is printed as a shutdown error.
JoinDone ==
  /\ supPc = "join"
  /\ supIdx <= Len(futures)
  /\ Done(futures[supIdx])
  /\ supIdx' = supIdx + 1
  /\ UNCHANGED << timeVars, afterStop, ports, stop_event, down_hosts, lock, supPc, futures,
                  poolVars, workerVars, reporterVars, histVars >>

\* future.result(timeout=5) of a future still not done after 5 seconds:
\* TimeoutError, printed as a shutdown error; the loop goes on.
JoinTimeout ==
  /\ supPc = "join"
  /\ supIdx <= Len(futures)
  /\ ~Done(futures[supIdx])
  /\ supIdx' = supIdx + 1
  /\ UNCHANGED << timeVars, afterStop, ports, stop_event, down_hosts, lock, supPc, futures,
                  poolVars, workerVars, reporterVars, lastDown, alerted,
                  afterFault, loadFailed >>

\* Faulty variant: executor.shutdown(wait=False), reset_check returns while
\* calls are still running.
ExecutorShutdown_noWait ==
  /\ supPc = "join"
  /\ supIdx > Len(futures)
  /\ supPc' = "Stopped"
  /\ UNCHANGED << timeVars, afterStop, ports, stop_event, down_hosts, lock, supIdx,
                  futures, poolVars, workerVars, reporterVars, histVars >>

\* The for loop over futures is over: _shutdown_threads returns, and
\* finally: executor.shutdown(wait=True) returns when every work item has
\* run and every pool thread has ended; reset_check returns.
ExecutorShutdown ==
  /\ supPc = "join"
  /\ supIdx > Len(futures)
  /\ queue = << >>
  /\ \A j \in DOMAIN futures : Done(futures[j])
  /\ supPc' = "Stopped"
  /\ UNCHANGED << timeVars, afterStop, ports, stop_event, down_hosts, lock, supIdx, futures,
                  poolVars, workerVars, reporterVars, histVars >>

\* ------------------------------------------------------- specifications
WorkerStep(i) ==
  \/ WorkerWhile(i)
  \/ WorkerFor(i)
  \/ WorkerProbe(i)
  \/ WorkerProbeRaise(i)
  \/ WorkerLock(i)
  \/ WorkerReport(i)
  \/ WorkerPause(i)
  \/ WorkerExcept(i)

ReporterStep ==
  \/ ReporterWhile
  \/ ReporterSleep
  \/ ReporterLock
  \/ ReporterHeader
  \/ ReporterEmit

SupStep ==
  \/ LoadPortsFile
  \/ LoadPortsFileError
  \/ ClearStop
  \/ ClearHosts
  \/ CreateExecutor
  \/ SubmitWorker
  \/ SubmitReporter
  \/ SupPoll
  \/ SupStatusLock
  \/ SupStatus
  \/ ShutdownSetStop
  \/ FinalLock
  \/ FinalStatus
  \/ JoinDone
  \/ JoinTimeout
  \/ ExecutorShutdown

Next ==
  \/ Start
  \/ Interrupt
  \/ SupStep
  \/ UnitStart
  \/ \E i \in Workers : WorkerStep(i)
  \/ ReporterStep
  \/ ReporterFault

Spec == Init /\ [][Next]_vars

\* Every pool thread and the main thread keep being scheduled; a probe ends
\* within its timeouts; a thread that waits for down_hosts_lock gets it, the
\* lock being held for the length of a with block only and released again and
\* again. Ctrl+C, a new call of reset_check and an exception in the reporter
\* are not owed by anyone.
FairSpec ==
  /\ Spec
  /\ WF_vars(SupStep)
  /\ WF_vars(UnitStart)
  /\ WF_vars(ReporterStep)
  /\ \A i \in Workers : WF_vars(WorkerStep(i))
  /\ \A i \in Workers : SF_vars(WorkerLock(i))
  /\ SF_vars(ReporterLock)
  /\ SF_vars(SupStatusLock \/ FinalLock)

\* ------------------------------------------- the time a stop waits for a probe
\* check_ports(host, ports, timeout=3): blender.py does not pass a timeout,
\* every connect_ex blocks for at most this many seconds.
Timeout == 3

\* Longest list of ports in the timing model.
MaxPortList == 3

\* The stop_event.wait(0.1) after a cycle, rounded up to a whole second.
PauseUnits == 1

\* Port numbers a ports file entry may list, in order.
KnownPorts == << 22, 80, 443, 8080 >>

PortLists == { SubSeq(KnownPorts, 1, n) : n \in 1..MaxPortList }

\* One worker at the head of its for loop, stop_event clear, with any list
\* of ports; the rest of the program as Blender.__init__ leaves it.
TimeInit ==
  /\ ports = << >>
  /\ stop_event = FALSE
  /\ down_hosts = {}
  /\ lock = Free
  /\ supPc = "Idle"
  /\ supIdx = 1
  /\ futures = << >>
  /\ queue = << >>
  /\ nThreads = 0
  /\ pc = [i \in Workers |-> "none"]
  /\ wIdx = [i \in Workers |-> 1]
  /\ wOpen = [i \in Workers |-> FALSE]
  /\ rPc = "none"
  /\ rElapsed = 0
  /\ rCount = 0
  /\ printed = [i \in Workers |-> NoEvent]
  /\ lastDown = {}
  /\ alerted = {}
  /\ afterFault = [i \in Workers |-> 0]
  /\ loadFailed = FALSE
  /\ afterStop = NothingAfterStop
  /\ tPc = "for"
  /\ tPorts \in PortLists
  /\ tJ = 1
  /\ tConn = 0
  /\ tSince = 0 - 1

\* A second passes.
Later(t) == IF t < 0 THEN t ELSE t + 1

\* if self.stop_event.is_set(): break; else format the host and call
\* check_ports, which starts with the first port.
TimeFor ==
  /\ tPc = "for"
  /\ IF tSince >= 0
     THEN tPc' = "observed" /\ UNCHANGED << tJ, tConn >>
     ELSE tPc' = "connect" /\ tJ' = 1 /\ tConn' = 0
  /\ UNCHANGED << blenderVars, tPorts, tSince >>

\* _shutdown_threads calls stop_event.set() at any moment.
TimeStop ==
  /\ tPc \in {"for", "connect"}
  /\ tSince < 0
  /\ tSince' = 0
  /\ UNCHANGED << blenderVars, tPc, tPorts, tJ, tConn >>

\* Faulty variant: no sock.settimeout, a connect may block twice as long.
TimeTick_noTimeout ==
  /\ tPc = "connect"
  /\ tConn < 2 * Timeout
  /\ tConn' = tConn + 1
  /\ tSince' = Later(tSince)
  /\ UNCHANGED << blenderVars, tPc, tPorts, tJ >>

\* sock.settimeout(timeout); sock.connect_ex(...) blocks for another second.
TimeTick ==
  /\ tPc = "connect"
  /\ tConn < Timeout
  /\ tConn' = tConn + 1
  /\ tSince' = Later(tSince)
  /\ UNCHANGED << blenderVars, tPc, tPorts, tJ >>

\* connect_ex returns 0 before the timeout: check_ports returns True, the
\* with block follows and the for loop is at its head again.
TimeConnectOpen ==
  /\ tPc = "connect"
  /\ tConn < Timeout
  /\ tPc' = "for"
  /\ tJ' = 1
  /\ tConn' = 0
  /\ UNCHANGED << blenderVars, tPorts, tSince >>

\* connect_ex returns an error (refused, or timed out after Timeout seconds)
\* or raises: the next port is tried; after the last one check_ports
\* returns False.
TimeConnectFail ==
  /\ tPc = "connect"
  /\ IF tJ = Len(tPorts)
     THEN tPc' = "for" /\ tJ' = 1
     ELSE tPc' = "connect" /\ tJ' = tJ + 1
  /\ tConn' = 0
  /\ UNCHANGED << blenderVars, tPorts, tSince >>

TimeNext ==
  \/ TimeFor
  \/ TimeStop
  \/ TimeTick
  \/ TimeConnectOpen
  \/ TimeConnectFail

TimeSpec == TimeInit /\ [][TimeNext]_vars

\* ------------------------------------------------------------------ claims
\* The pair a RESET or RECOVERED line names.
EventPair(e) == << e.team, e.host >>

\* Worker i has probed team index k and has not applied the result yet.
Pending(i, k) == pc[i] \in {"lock", "crit"} /\ wIdx[i] = k

\* C1: for every (template, team) pair whose worker is not between a finished
\* probe and its report, the pair is in down_hosts exactly if the most recent
\* completed probe of the pair failed (absent if it succeeded or none completed).
C1_MembershipIsLastProbe ==
  \A i \in Workers : \A k \in 1..TeamEnd :
    ~Pending(i, k) => (Entry(i, k) \in down_hosts <=> Entry(i, k) \in lastDown)

\* A full cycle of worker 1 is over; the last team answered no port, the
\* others did: the set holds exactly the last team's host.
C1_Witness ==
  /\ pc[1] = "pause"
  /\ wIdx[1] > TeamEnd
  /\ ~stop_event
  /\ lastDown = {Entry(1, TeamEnd)}
  /\ down_hosts = {Entry(1, TeamEnd)}

\* C2: an unreachable report for a pair already in down_hosts changes nothing
\* and prints nothing; a POSSIBLE BOX RESET line is printed only for a pair
\* whose last alert is not a POSSIBLE BOX RESET, so two of them for one pair
\* are separated by a RECOVERED; the pairs last alerted are those in the set.
C2_NoDuplicateAlert ==
  /\ [](alerted = down_hosts)
  /\ [][ \A i \in Workers :
           /\ (printed'[i].kind = "RESET" /\ pc[i] = "crit") =>
                 EventPair(printed'[i]) \notin alerted
           /\ (pc[i] = "crit" /\ pc'[i] = "for" /\ ~wOpen[i]) =>
                 IF Entry(i, wIdx[i]) \in down_hosts
                 THEN down_hosts' = down_hosts /\ printed'[i] = NoEvent
                 ELSE /\ down_hosts' = down_hosts \cup {Entry(i, wIdx[i])}
                      /\ printed'[i].kind = "RESET"
                      /\ EventPair(printed'[i]) = Entry(i, wIdx[i]) ]_vars

\* Worker 1 holds the lock with a second unreachable result for a pair that
\* is already in the set, while worker 2 is in the middle of its own cycle.
C2_Witness ==
  /\ pc[1] = "crit"
  /\ lock = 1
  /\ ~wOpen[1]
  /\ Entry(1, wIdx[1]) \in down_hosts
  /\ Entry(1, wIdx[1]) \in alerted
  /\ pc[2] \in {"for", "probe", "lock"}

\* C3: a reachable report removes the pair if it is in down_hosts and prints
\* exactly one RECOVERED for it; for an absent pair it changes nothing and
\* prints nothing; a RECOVERED line is printed only for a pair that was in the
\* set with POSSIBLE BOX RESET as its last alert.
C3_RoundTrip ==
  [][ \A i \in Workers :
        /\ (printed'[i].kind = "RECOVERED" /\ pc[i] = "crit") =>
              /\ EventPair(printed'[i]) \in alerted
              /\ EventPair(printed'[i]) \in down_hosts
              /\ EventPair(printed'[i]) \notin down_hosts'
        /\ (pc[i] = "crit" /\ pc'[i] = "for" /\ wOpen[i]) =>
              IF Entry(i, wIdx[i]) \in down_hosts
              THEN /\ down_hosts' = down_hosts \ {Entry(i, wIdx[i])}
                   /\ printed'[i].kind = "RECOVERED"
                   /\ EventPair(printed'[i]) = Entry(i, wIdx[i])
              ELSE down_hosts' = down_hosts /\ printed'[i] = NoEvent ]_vars

\* The RECOVERED line for worker 1's first team has just been printed: the
\* pair went in on an earlier cycle and is out again.
C3_Witness ==
  /\ printed[1].kind = "RECOVERED"
  /\ EventPair(printed[1]) = Entry(1, 1)
  /\ Entry(1, 1) \notin down_hosts
  /\ Entry(1, 1) \notin alerted
  /\ pc[1] = "for"
  /\ wIdx[1] = 2

\* C4: when the supervisor, in its polling loop and with stop_event clear,
\* finds a future that is done, the step it takes from there enters the
\* shutdown (it does not go on polling).
C4_StopsOnUnexpectedEnd ==
  [][ (supPc = "poll" /\ FinishedFutures # {} /\ ~stop_event /\ supPc' # "poll")
        => supPc' = "shutdown" ]_vars

\* The units the executor was given in this run.
Submitted == { futures[j] : j \in DOMAIN futures }

\* C5: while the supervisor stays in its polling loop, every submitted worker
\* and the reporter get to execute, whatever the inventory size is.
C5_AllUnitsExecute ==
  [](Running => <>(~Running \/ \A u \in Submitted : UnitPc(u) # "queued"))

\* C6: after Ctrl+C in the polling loop the supervisor sets stop_event, awaits
\* every future (a timed out wait does not end the loop) and reset_check
\* returns.
C6_ShutdownCompletes ==
  /\ [](supPc = "Stopped" => (stop_event /\ supIdx = Len(futures) + 1))
  /\ (supPc = "shutdown") ~> (supPc = "Stopped")

\* Every future has been waited for, and one of the waits timed out: its
\* thread is still running.
C6_Witness ==
  /\ supPc = "join"
  /\ supIdx = Len(futures) + 1
  /\ Len(futures) = MaxTemplates + 1
  /\ \E j \in DOMAIN futures : ~Done(futures[j])

\* C7 as claimed: once the handler of a fault has run, the pair of the team
\* that faulted is in down_hosts.
C7_FaultRecordedAsDown ==
  \A i \in Workers : afterFault[i] # 0 => Entry(i, afterFault[i]) \in down_hosts

\* C7 as amended: a probe that raises records nothing: neither the raise nor
\* its handler changes down_hosts or prints an alert, the pair keeps the
\* membership the last completed probe gave it.
C7_FaultRecordsNothing ==
  /\ [][ \A i \in Workers :
           ((pc[i] = "probe" /\ pc'[i] = "except") \/ (pc[i] = "except" /\ pc'[i] # "except"))
             => /\ down_hosts' = down_hosts
                /\ alerted' = alerted
                /\ printed'[i] = NoEvent ]_vars
  /\ [](\A i \in Workers : afterFault[i] # 0 =>
           (Entry(i, afterFault[i]) \in down_hosts <=> Entry(i, afterFault[i]) \in lastDown))

\* The handler of a fault at worker 1's last team has run, and the host is
\* not in the set.
C7_Witness ==
  /\ pc[1] = "while"
  /\ afterFault[1] = TeamEnd
  /\ Entry(1, TeamEnd) \notin down_hosts

\* C8 as claimed: the probe that follows a fault is for the team that faulted.
C8_RetriesSamePosition ==
  \A i \in Workers : (pc[i] = "probe" /\ afterFault[i] # 0) => wIdx[i] = afterFault[i]

\* C8 as amended: the probe that follows a fault is for the first team of the
\* range: the cycle starts over.
C8_RestartsCycle ==
  \A i \in Workers : (pc[i] = "probe" /\ afterFault[i] # 0) => wIdx[i] = 1

\* After a fault at its last team worker 1 is about to probe the first team.
C8_Witness ==
  /\ pc[1] = "probe"
  /\ afterFault[1] = TeamEnd
  /\ wIdx[1] = 1
  /\ TeamEnd > 1

\* C9 as claimed: a call of check_host_continuous only returns with stop_event
\* set, and after a fault the host that faulted is probed again unless
\* stop_event gets set.
C9_SameHostProbedAgain ==
  /\ [][ \A i \in Workers : (pc[i] # "done" /\ pc'[i] = "done") => stop_event ]_vars
  /\ \A i \in Workers : \A k \in 1..TeamEnd :
        (pc[i] = "except" /\ wIdx[i] = k) ~> (stop_event \/ (pc[i] = "probe" /\ wIdx[i] = k))

\* C9 as amended: a call only returns with stop_event set, and after a fault
\* the worker starts its cycle over and probes the first team's host again
\* unless stop_event gets set.
C9_LoopResumes ==
  /\ [][ \A i \in Workers : (pc[i] # "done" /\ pc'[i] = "done") => stop_event ]_vars
  /\ \A i \in Workers :
        (pc[i] = "except") ~> (stop_event \/ (pc[i] = "probe" /\ wIdx[i] = 1))

\* With stop_event clear, worker 2 is back at a probe after a fault at its
\* last team, while worker 1 runs.
C9_Witness ==
  /\ ~stop_event
  /\ pc[2] = "probe"
  /\ afterFault[2] = TeamEnd
  /\ pc[1] \notin {"none", "queued", "done"}

\* The submits of reset_check have been made.
Launched == supPc \in {"poll", "status_lock", "status", "shutdown", "final_lock", "final", "join"}

\* C10: after a load of the ports file that failed, nothing is launched.
C10_NoRunAfterLoadFailure ==
  loadFailed => (~Launched /\ futures = << >> /\ queue = << >>)

\* The elements of a list.
Range(seq) == { seq[j] : j \in DOMAIN seq }

\* A list of (team, host) tuples in strictly ascending order.
IsAscending(seq) ==
  \A a \in DOMAIN seq : \A b \in DOMAIN seq : a < b => EntryLess(seq[a], seq[b])

\* C11: what a status block lists, sorted(down_hosts), is every entry of the
\* set once, in ascending (team, host) order; the set does not change while
\* the reporter or the supervisor is inside its block, so the count of the
\* header and the lines listed are those of one instant; the reporter prints
\* the all-hosts-up line exactly when the set is empty.
C11_AtomicSnapshot ==
  /\ [](LET L == sorted(down_hosts)
        IN  IsAscending(L) /\ Range(L) = down_hosts /\ Len(L) = Cardinality(down_hosts))
  /\ [](rPc = "list" => (lock = Reporter /\ down_hosts # {} /\ rCount = Cardinality(down_hosts)))
  /\ [][ (lock \in {Reporter, Sup} \/ supPc \in {"status", "final"}) => down_hosts' = down_hosts ]_vars
  /\ [][ (rPc = "crit" /\ rPc' = "while") => down_hosts = {} ]_vars

\* The reporter has printed a header for two hosts and is about to list
\* them, while the worker waits at the lock with a recovery to record.
C11_Witness ==
  /\ rPc = "list"
  /\ rCount = 2
  /\ pc[1] = "lock"
  /\ wOpen[1]

\* The holder of down_hosts_lock according to the positions of the threads:
\* the units that are inside a with self.down_hosts_lock block.
InBlock ==
  { i \in Workers : pc[i] = "crit" }
    \cup (IF rPc \in {"crit", "list"} THEN {Reporter} ELSE {})
    \cup (IF supPc \in {"status", "final"} THEN {Sup} ELSE {})

\* C12: at most one unit is inside a with block on the set, and it is the
\* holder of the lock; the lock is held nowhere else (not during a probe, a
\* wait, a join or another acquire); a unit that waits for the lock leaves
\* the wait only into its block (the supervisor also by Ctrl+C), and no unit
\* waits forever.
C12_ExclusiveAndLive ==
  /\ [](Cardinality(InBlock) <= 1)
  /\ [](IF lock = Free THEN InBlock = {} ELSE InBlock = {lock})
  /\ [][ /\ \A i \in Workers : pc[i] = "lock" => pc'[i] \in {"lock", "crit"}
         /\ rPc = "lock" => rPc' \in {"lock", "crit"}
         /\ supPc = "status_lock" => supPc' \in {"status_lock", "status", "shutdown"}
         /\ supPc = "final_lock" => supPc' \in {"final_lock", "final"} ]_vars
  /\ \A i \in Workers : []<>(pc[i] # "lock")
  /\ []<>(rPc # "lock")
  /\ []<>(supPc # "status_lock")
  /\ []<>(supPc # "final_lock")

\* Both workers wait for the lock while the supervisor prints its status.
C12_Witness ==
  /\ lock = Sup
  /\ supPc = "status"
  /\ pc[1] = "lock"
  /\ pc[2] = "lock"

\* C13: a worker that finds stop_event set at the head of the for loop, with
\* teams of the cycle left, breaks out of the loop without probing any of
\* them, and its wait then ends the call: no new cycle is started, and the
\* worker does not stay in the loop.
C13_AbandonsCycle ==
  /\ [][ \A i \in Workers :
           /\ (pc[i] = "for" /\ stop_event /\ pc'[i] # "for")
                 => (pc'[i] = "pause" /\ wIdx'[i] = wIdx[i])
           /\ (pc[i] = "pause" /\ stop_event /\ pc'[i] # "pause")
                 => pc'[i] = "done" ]_vars
  /\ \A i \in Workers : []<>(~(stop_event /\ pc[i] \in {"for", "pause"}))

\* Worker 1 has seen stop_event after its first team and has left the loop
\* with the second team not probed.
C13_Witness ==
  /\ stop_event
  /\ pc[1] = "pause"
  /\ wIdx[1] = 2
  /\ wIdx[1] <= TeamEnd

\* C14: once the supervisor has printed the final status (it is at the joins
\* or has returned), down_hosts does not change any more.
C14_FrozenAfterFinalStatus ==
  [][ (supPc \in {"join", "Stopped"}) => (down_hosts' = down_hosts) ]_vars

\* No check_host_continuous or report_down_hosts call of the current
\* executor has begun.
NoneStarted == \A u \in Workers \cup {Reporter} : UnitPc(u) \in {"none", "queued"}

\* C15 as claimed: when the first unit of a run begins to execute, stop_event
\* is clear and down_hosts is empty.
C15_FirstUnitSeesCleanState ==
  [][ (NoneStarted /\ ~NoneStarted') => (~stop_event /\ down_hosts = {}) ]_vars

\* C15 as amended: when the executor of a run is created, on a first call
\* and on a later one, stop_event is clear and down_hosts is empty; when the
\* first unit begins to execute down_hosts is empty, and stop_event is set
\* only if the shutdown of this same run has set it.
C15_RunStartsClean ==
  /\ [](supPc = "executor" => (~stop_event /\ down_hosts = {}))
  /\ [][ (NoneStarted /\ ~NoneStarted') =>
           /\ down_hosts = {}
           /\ stop_event => supPc \in {"final_lock", "final", "join"} ]_vars

\* reset_check was called again after a run whose units have returned: the
\* signal and the set are cleared and the new executor is about to be made.
C15_Witness ==
  /\ supPc = "executor"
  /\ pc[1] = "done"
  /\ rPc = "done"
  /\ ~stop_event
  /\ down_hosts = {}

\* C16: during a run down_hosts is changed only by the with block of a
\* worker, by one entry made of the worker's own template and a team of the
\* range; no step of the reporter and no status or final status step of the
\* supervisor changes it. (The clear of reset_check precedes the run.)
C16_OnlyWorkersMutate ==
  /\ [][ down_hosts' # down_hosts =>
           \/ supPc = "clear_hosts" /\ down_hosts' = {}
           \/ \E i \in Workers :
                 /\ pc[i] = "crit" /\ pc'[i] = "for"
                 /\ \E k \in 1..TeamEnd :
                       \/ down_hosts' = down_hosts \cup {Entry(i, k)}
                       \/ down_hosts' = down_hosts \ {Entry(i, k)} ]_vars
  /\ [][ (rPc' # rPc \/ supPc \in {"status", "final"}) => down_hosts' = down_hosts ]_vars

\* The reporter lists the set right after worker 1 has put a host into it.
C16_Witness ==
  /\ rPc = "list"
  /\ pc[1] = "for"
  /\ printed[1].kind = "RESET"
  /\ EventPair(printed[1]) \in down_hosts

\* C17 as claimed: the worker finds stop_event set at most one timeout, plus
\* the pause, after it was set, whatever the number of ports.
C17_DelayAtMostOneTimeout ==
  tPc = "observed" => tSince <= Timeout + PauseUnits

\* C17 as amended: stop_event is never set for longer than one timeout per
\* port of the list without the worker having found it set.
C17_DelayAtMostTimeoutPerPort ==
  tSince <= Len(tPorts) * Timeout

\* stop_event was set right after the stop check and both ports of the list
\* ran into their timeout before the next check.
C17_Witness ==
  /\ tPc = "observed"
  /\ Len(tPorts) = 2
  /\ tSince = 2 * Timeout

\* C18: a call of report_down_hosts completes at most one status report
\* while stop_event is set; at its next loop test after the signal it
\* returns, and it does not stay in the loop.
C18_AtMostOneDigestAfterStop ==
  /\ [](afterStop.digests <= 1)
  /\ [][ (stop_event /\ rPc = "while" /\ rPc' # rPc) => rPc' = "done" ]_vars
  /\ []<>(~(stop_event /\ rPc \in {"while", "sleep", "lock", "crit", "list"}))

\* The reporter has printed one status report after stop_event was set and
\* is at its loop test.
C18_Witness ==
  /\ stop_event
  /\ rPc = "while"
  /\ afterStop.digests = 1

\* C19: stop_event goes from clear to set only by the set() of
\* _shutdown_threads, which a run reaches once, and is clear during the whole
\* polling loop; it goes from set to clear only by the clear() of a new
\* reset_check call, when no call of the previous run is running or queued.
C19_StopSetOncePerRun ==
  /\ [][ stop_event' # stop_event =>
           IF stop_event'
           THEN supPc = "shutdown" /\ supPc' = "final_lock"
           ELSE supPc = "clear_stop" /\ Busy = {} /\ queue = << >> ]_vars
  /\ [][ (supPc # "shutdown" /\ supPc' = "shutdown") => (Running /\ ~stop_event) ]_vars
  /\ [](Running => ~stop_event)

\* A new reset_check call has cleared stop_event after both workers and the
\* reporter of the previous run have returned.
C19_Witness ==
  /\ supPc = "clear_hosts"
  /\ ~stop_event
  /\ pc[1] = "done"
  /\ pc[2] = "done"
  /\ rPc = "done"

\* C20: once stop_event is set no worker begins a probe (the only probe
\* that ends after the signal is one whose stop check came before it), a
\* worker at a wait or at the loop test returns, a worker at the for loop
\* leaves it, and each running worker changes down_hosts at most once.
C20_AtMostOneChangeAfterStop ==
  /\ [](\A i \in Workers : afterStop.changes[i] <= 1)
  /\ [][ \A i \in Workers :
           /\ (pc[i] # "probe" /\ pc'[i] = "probe") => (pc[i] = "for" /\ ~stop_event)
           /\ (stop_event /\ pc[i] \in {"pause", "while", "except"})
                 => pc'[i] \in {pc[i], "done"}
           /\ (stop_event /\ pc[i] = "for") => pc'[i] \in {"for", "pause"} ]_vars

\* Worker 1 has made its one change of the set after stop_event was set,
\* while the supervisor waits for the futures.
C20_Witness ==
  /\ stop_event
  /\ supPc = "join"
  /\ pc[1] = "for"
  /\ afterStop.changes[1] = 1

====
